---- MODULE Spec2Model ----
(***************************************************************************)
(* Model of src/training.rs: the classification evaluator, the training    *)
(* and validation steps, create_artifact_dir and train.  The collaborators *)
(* that train calls but that are not in training.rs (the model's forward   *)
(* pass, the loss, the optimizer, the data loaders and the learner's fit   *)
(* loop) are modelled from the design document, sections 4 and 5.          *)
(***************************************************************************)
EXTENDS Integers, Sequences, FiniteSets, TLC

\* ---- bounds of the model ------------------------------------------------
MaxEpochs == 2
MaxBatchSize == 2
MaxTrain == 4
MaxValid == 2
MaxWorkers == 2
MaxStale == 1
MaxClasses == 2
ParamMod == 3

\* seeds a run may be configured with: the default of TrainingConfig and the
\* seed of the scenario of section 8
Seeds == {7, 42}

VARIABLES
    pc,          \* statement of train about to execute / phase of the fit loop
    cfg,         \* the TrainingConfig handed to train
    nTrain,      \* samples in the training data source
    nValid,      \* samples in the validation data source
    dirExists,   \* the artifact directory exists
    files,       \* files in the artifact directory
    rmRes,       \* result of the last remove_dir_all
    mkRes,       \* result of the last create_dir_all
    prepCalls,   \* completed calls of create_artifact_dir
    seedCount,   \* calls of B::seed
    rngSeed,     \* <<>> while the global generator is unseeded, else <<seed>>
    loaders,     \* data loaders built so far
    params,      \* <<>> before the model is initialised, else <<parameters>>
    epoch,       \* epoch the fit loop is in (0 before the first)
    batchIdx,    \* batches of the current phase consumed by the fit loop
    prefetched,  \* batches the loader's workers hold ready for the fit loop
    batch,       \* batch handed to the last step
    out,         \* <<>> or <<ClassificationOutput>> of the last step
    grads,       \* <<>> or <<gradient set>> returned by the last TrainStep
    trainSteps,  \* TrainStep invocations
    validSteps,  \* ValidStep invocations
    updates,     \* optimizer updates
    checkpoints, \* checkpoint operations
    finalSaves   \* final model saves

vars == <<pc, cfg, nTrain, nValid, dirExists, files, rmRes, mkRes, prepCalls,
          seedCount, rngSeed, loaders, params, epoch, batchIdx, prefetched,
          batch, out, grads, trainSteps, validSteps, updates, checkpoints,
          finalSaves>>

fsVars == <<dirExists, files, rmRes, mkRes, prepCalls>>
runVars == <<cfg, nTrain, nValid>>
loopVars == <<epoch, batchIdx, prefetched>>
stepVars == <<batch, out, grads>>
countVars == <<trainSteps, validSteps, updates, checkpoints, finalSaves>>

\* ---- files of the artifact directory -------------------------------------
StaleFiles == {<<"stale", i>> : i \in 1..MaxStale}
ConfigFile == <<"config.json", 0>>
ModelFile == <<"model", 0>>
CheckpointFile(e) == <<"checkpoint", e>>

\* ---- data sources and batches --------------------------------------------
Classes == 0..(MaxClasses - 1)
Samples == [image : Classes, target : Classes]

TrainSample(i) == [image |-> i % MaxClasses, target |-> (i \div MaxClasses) % MaxClasses]
ValidSample(i) == [image |-> (i + 1) % MaxClasses, target |-> i % MaxClasses]

\* position k of a source of n samples shuffled with seed s
ShuffledIndex(k, n, s) == ((k - 1 + s) % n) + 1

NumBatches(n, b) == (n + b - 1) \div b

BatchLen(j, n, b) == IF j * b <= n THEN b ELSE n - (j - 1) * b

TrainBatch(j, n, b, s) ==
    [k \in 1..BatchLen(j, n, b) |-> TrainSample(ShuffledIndex((j - 1) * b + k, n, s))]

ValidBatch(j, n, b, s) ==
    [k \in 1..BatchLen(j, n, b) |-> ValidSample(ShuffledIndex((j - 1) * b + k, n, s))]

\* ---- classification evaluator and step contracts -------------------------
\* the model's forward pass on one image: the predicted class
Forward(p, image) == (p + image) % MaxClasses

SampleLoss(p, s) == IF Forward(p, s.image) = s.target THEN 0 ELSE 1

RECURSIVE SumLoss(_, _)
SumLoss(p, b) == IF b = <<>> THEN 0 ELSE SampleLoss(p, Head(b)) + SumLoss(p, Tail(b))

\* cross-entropy with mean reduction: the mean over no sample is not a number
CrossEntropyLoss(p, b) ==
    [isNaN |-> Len(b) = 0, num |-> SumLoss(p, b), den |-> Len(b)]

\* Model::forward_classification: no test of the batch, always an output
forward_classification(p, b) ==
    [loss |-> CrossEntropyLoss(p, b),
     output |-> [k \in 1..Len(b) |-> Forward(p, b[k].image)],
     targets |-> [k \in 1..Len(b) |-> b[k].target]]

\* loss.backward(): a fresh gradient set, derived from the loss (not a
\* number when the loss is not)
Backward(loss) == [isNaN |-> loss.isNaN, val |-> loss.num]

\* TrainStep::step: TrainOutput::new(self, item.loss.backward(), item)
TrainStepFn(p, b) ==
    LET item == forward_classification(p, b)
    IN [grads |-> Backward(item.loss), item |-> item]

\* ValidStep::step
ValidStepFn(p, b) == forward_classification(p, b)

\* the steps take the model by shared reference: the parameters after a step
StepMutatesModel(p) == (p + 1) % ParamMod
StepLeavesModel(p) == p

\* the optimizer's update (params, gradients) -> new params
OptimizerUpdate(p, g) == (p + g.val) % ParamMod

\* ---- train: statements in program order ----------------------------------
TrainStmtsSeedLate ==
    <<"prepare_remove", "prepare_create", "config_save", "build_train_loader",
      "build_test_loader", "build_learner", "seed", "fit", "save_final", "done">>
TrainStmts ==
    <<"prepare_remove", "prepare_create", "config_save", "seed",
      "build_train_loader", "build_test_loader", "build_learner", "fit",
      "save_final", "done">>

After(stmt) ==
    LET i == CHOOSE k \in 1..Len(TrainStmts) : TrainStmts[k] = stmt
    IN TrainStmts[i + 1]

\* Result::expect: the statement after it, or a panic
ExpectIgnored(ok, stmt) == After(stmt)
Expect(ok, stmt) == IF ok THEN After(stmt) ELSE "failed"

\* LearnerBuilder: the settings train gives the learner
LearnerDefaultEpochs(c) == 1
LearnerNumEpochs(c) == c.num_epochs

LoaderBatchSizeOne(c) == 1
LoaderBatchSize(c) == c.batch_size

\* ---- the fit loop's phases ----------------------------------------------
PhaseOrderValidFirst == <<"valid_phase", "train_phase", "checkpoint">>
PhaseOrder == <<"train_phase", "valid_phase", "checkpoint">>

NextPhase(ph) ==
    LET i == CHOOSE k \in 1..Len(PhaseOrder) : PhaseOrder[k] = ph
    IN IF i < Len(PhaseOrder) THEN PhaseOrder[i + 1] ELSE "fit"

AfterTrainStepSkipUpdate == "train_phase"
AfterTrainStep == "optim"

TrainBatches == NumBatches(nTrain, LoaderBatchSize(cfg))
ValidBatches == NumBatches(nValid, LoaderBatchSize(cfg))

\* ---- initial states ------------------------------------------------------
Configs ==
    [num_epochs : 0..MaxEpochs, batch_size : 1..MaxBatchSize,
     num_workers : 1..MaxWorkers, seed : Seeds]

InitRun ==
    /\ cfg \in Configs
    /\ nTrain \in 0..MaxTrain
    /\ nValid \in 0..MaxValid
    /\ dirExists \in BOOLEAN
    /\ files \in SUBSET StaleFiles
    /\ (~dirExists => files = {})
    /\ rmRes = "none"
    /\ mkRes = "none"
    /\ prepCalls = 0
    /\ seedCount = 0
    /\ rngSeed = <<>>
    /\ loaders = {}
    /\ params = <<>>
    /\ epoch = 0
    /\ batchIdx = 0
    /\ prefetched = 0
    /\ batch = <<>>
    /\ out = <<>>
    /\ grads = <<>>
    /\ trainSteps = 0
    /\ validSteps = 0
    /\ updates = 0
    /\ checkpoints = 0
    /\ finalSaves = 0

Init == InitRun /\ pc = "prepare_remove"

\* ---- create_artifact_dir -------------------------------------------------
\* std::fs::remove_dir_all(artifact_dir).ok()
RemoveDirAll ==
    /\ pc = "prepare_remove"
    /\ \/ /\ ~dirExists
          /\ rmRes' = "NotFound"
          /\ UNCHANGED <<dirExists, files>>
       \/ /\ dirExists
          /\ rmRes' = "Ok"
          /\ dirExists' = FALSE
          /\ files' = {}
       \/ /\ dirExists
          /\ rmRes' = "Other"
          /\ \E left \in SUBSET files : files' = left
          /\ UNCHANGED dirExists
    /\ pc' = After("prepare_remove")
    /\ UNCHANGED <<mkRes, prepCalls, runVars, seedCount, rngSeed, loaders, params,
                   loopVars, stepVars, countVars>>

\* std::fs::create_dir_all(artifact_dir).ok()
CreateDirAll ==
    /\ pc = "prepare_create"
    /\ \/ /\ mkRes' = "Ok"
          /\ dirExists' = TRUE
       \/ /\ ~dirExists
          /\ mkRes' = "Err"
          /\ UNCHANGED dirExists
    /\ prepCalls' = prepCalls + 1
    /\ pc' = After("prepare_create")
    /\ UNCHANGED <<files, rmRes, runVars, seedCount, rngSeed, loaders, params,
                   loopVars, stepVars, countVars>>

\* the directory-prepare operation called a second time in succession
PrepareAgain ==
    /\ pc = After("prepare_create")
    /\ prepCalls < 2
    /\ pc' = "prepare_remove"
    /\ UNCHANGED <<fsVars, runVars, seedCount, rngSeed, loaders, params,
                   loopVars, stepVars, countVars>>

\* ---- train ---------------------------------------------------------------
\* config.save(format!("{artifact_dir}/config.json")).expect(..)
ConfigSave ==
    /\ pc = "config_save"
    /\ \E ok \in BOOLEAN :
          /\ (ok => dirExists)
          /\ files' = IF ok THEN files \cup {ConfigFile} ELSE files
          /\ pc' = Expect(ok, "config_save")
    /\ UNCHANGED <<dirExists, rmRes, mkRes, prepCalls, runVars, seedCount, rngSeed,
                   loaders, params, loopVars, stepVars, countVars>>

\* B::seed(config.seed)
Seed ==
    /\ pc = "seed"
    /\ seedCount' = seedCount + 1
    /\ rngSeed' = <<cfg.seed>>
    /\ pc' = After("seed")
    /\ UNCHANGED <<fsVars, runVars, loaders, params, loopVars, stepVars, countVars>>

BuildTrainLoader ==
    /\ pc = "build_train_loader"
    /\ loaders' = loaders \cup {"train"}
    /\ pc' = After("build_train_loader")
    /\ UNCHANGED <<fsVars, runVars, seedCount, rngSeed, params, loopVars, stepVars,
                   countVars>>

BuildTestLoader ==
    /\ pc = "build_test_loader"
    /\ loaders' = loaders \cup {"valid"}
    /\ pc' = After("build_test_loader")
    /\ UNCHANGED <<fsVars, runVars, seedCount, rngSeed, params, loopVars, stepVars,
                   countVars>>

\* LearnerBuilder::new(..)...build(config.model.init(&device), ..): the
\* parameters are drawn from the global generator
BuildLearner ==
    /\ pc = "build_learner"
    /\ IF rngSeed = <<>>
          THEN \E p \in 0..(ParamMod - 1) : params' = <<p>>
          ELSE params' = <<rngSeed[1] % ParamMod>>
    /\ epoch' = 0
    /\ pc' = After("build_learner")
    /\ UNCHANGED <<fsVars, runVars, seedCount, rngSeed, loaders, batchIdx, prefetched,
                   stepVars, countVars>>

\* ---- learner.fit(dataLoader_train, dataLoader_test) ----------------------
InTrainPhase == pc \in {"train_phase", "optim"}
InValidPhase == pc = "valid_phase"

\* head of the epoch loop: the next epoch, or the trained model is returned
FitEpoch ==
    /\ pc = "fit"
    /\ IF epoch < LearnerNumEpochs(cfg)
          THEN /\ epoch' = epoch + 1
               /\ pc' = PhaseOrder[1]
          ELSE /\ pc' = After("fit")
               /\ UNCHANGED epoch
    /\ batchIdx' = 0
    /\ prefetched' = 0
    /\ UNCHANGED <<fsVars, runVars, seedCount, rngSeed, loaders, params, stepVars,
                   countVars>>

\* a worker of the data loader makes the next batch ready, concurrently with
\* the fit loop
Prefetch ==
    /\ \/ InTrainPhase /\ batchIdx + prefetched < TrainBatches
       \/ InValidPhase /\ batchIdx + prefetched < ValidBatches
    /\ prefetched < cfg.num_workers
    /\ prefetched' = prefetched + 1
    /\ UNCHANGED <<pc, fsVars, runVars, seedCount, rngSeed, loaders, params, epoch,
                   batchIdx, stepVars, countVars>>

\* TrainPhase, one batch: TrainStep::step on the next batch
TrainStep ==
    /\ pc = "train_phase"
    /\ prefetched > 0
    /\ LET b == TrainBatch(batchIdx + 1, nTrain, LoaderBatchSize(cfg), cfg.seed)
           o == TrainStepFn(params[1], b)
       IN \/ /\ batch' = b
             /\ out' = <<o.item>>
             /\ grads' = <<o.grads>>
             /\ params' = <<StepLeavesModel(params[1])>>
             /\ trainSteps' = trainSteps + 1
             /\ batchIdx' = batchIdx + 1
             /\ prefetched' = prefetched - 1
             /\ pc' = AfterTrainStep
          \/ /\ pc' = "failed"
             /\ UNCHANGED <<batch, out, grads, params, trainSteps, batchIdx,
                            prefetched>>
    /\ UNCHANGED <<fsVars, runVars, seedCount, rngSeed, loaders, epoch, validSteps,
                   updates, checkpoints, finalSaves>>

\* TrainPhase, one batch: the optimizer consumes the gradient set
OptimStep ==
    /\ pc = "optim"
    /\ params' = <<OptimizerUpdate(params[1], grads[1])>>
    /\ grads' = <<>>
    /\ updates' = updates + 1
    /\ pc' = "train_phase"
    /\ UNCHANGED <<fsVars, runVars, seedCount, rngSeed, loaders, loopVars, batch, out,
                   trainSteps, validSteps, checkpoints, finalSaves>>

\* the training data source is exhausted
TrainPhaseEnd ==
    /\ pc = "train_phase"
    /\ batchIdx = TrainBatches
    /\ pc' = NextPhase("train_phase")
    /\ batchIdx' = 0
    /\ prefetched' = 0
    /\ UNCHANGED <<fsVars, runVars, seedCount, rngSeed, loaders, params, epoch,
                   stepVars, countVars>>

\* ValidPhase, one batch: ValidStep::step on the next batch
ValidStep ==
    /\ pc = "valid_phase"
    /\ prefetched > 0
    /\ LET b == ValidBatch(batchIdx + 1, nValid, LoaderBatchSize(cfg), cfg.seed)
       IN \/ /\ batch' = b
             /\ out' = <<ValidStepFn(params[1], b)>>
             /\ params' = <<StepLeavesModel(params[1])>>
             /\ validSteps' = validSteps + 1
             /\ batchIdx' = batchIdx + 1
             /\ prefetched' = prefetched - 1
             /\ pc' = "valid_phase"
          \/ /\ pc' = "failed"
             /\ UNCHANGED <<batch, out, params, validSteps, batchIdx, prefetched>>
    /\ UNCHANGED <<fsVars, runVars, seedCount, rngSeed, loaders, epoch, grads,
                   trainSteps, updates, checkpoints, finalSaves>>

\* the validation data source is exhausted
ValidPhaseEnd ==
    /\ pc = "valid_phase"
    /\ batchIdx = ValidBatches
    /\ pc' = NextPhase("valid_phase")
    /\ batchIdx' = 0
    /\ prefetched' = 0
    /\ UNCHANGED <<fsVars, runVars, seedCount, rngSeed, loaders, params, epoch,
                   stepVars, countVars>>

\* with_file_checkpointer(CompactRecorder::new()): the epoch's checkpoint
Checkpoint ==
    /\ pc = "checkpoint"
    /\ checkpoints' = checkpoints + 1
    /\ files' = files \cup {CheckpointFile(epoch)}
    /\ pc' = NextPhase("checkpoint")
    /\ UNCHANGED <<dirExists, rmRes, mkRes, prepCalls, runVars, seedCount, rngSeed,
                   loaders, params, loopVars, stepVars, trainSteps, validSteps,
                   updates, finalSaves>>

\* model_trained.save_file(format!("{artifact_dir}/model"), ..).expect(..)
SaveFinal ==
    /\ pc = "save_final"
    /\ \E ok \in BOOLEAN :
          /\ (ok => dirExists)
          /\ files' = IF ok THEN files \cup {ModelFile} ELSE files
          /\ finalSaves' = IF ok THEN finalSaves + 1 ELSE finalSaves
          /\ pc' = Expect(ok, "save_final")
    /\ UNCHANGED <<dirExists, rmRes, mkRes, prepCalls, runVars, seedCount, rngSeed,
                   loaders, params, loopVars, stepVars, trainSteps, validSteps,
                   updates, checkpoints>>

Next ==
    \/ RemoveDirAll
    \/ CreateDirAll
    \/ ConfigSave
    \/ Seed
    \/ BuildTrainLoader
    \/ BuildTestLoader
    \/ BuildLearner
    \/ FitEpoch
    \/ Prefetch
    \/ TrainStep
    \/ OptimStep
    \/ TrainPhaseEnd
    \/ ValidStep
    \/ ValidPhaseEnd
    \/ Checkpoint
    \/ SaveFinal

Spec == Init /\ [][Next]_vars

\* train runs to its end: no statement of it waits for anything but the loader
FairSpec == Spec /\ WF_vars(Next)

\* ---- the directory-prepare operation, called twice in succession ---------
NextPrepare == RemoveDirAll \/ CreateDirAll \/ PrepareAgain

SpecPrepare == Init /\ [][NextPrepare]_vars

\* ---- the step contracts applied to any batch -----------------------------
Batches == UNION {[1..n -> Samples] : n \in 0..MaxBatchSize}

InitStep ==
    /\ InitRun
    /\ pc = "step_call"
    /\ cfg.num_epochs = 0 /\ cfg.num_workers = 1 /\ cfg.batch_size = 1
    /\ nTrain = 0 /\ nValid = 0 /\ ~dirExists

CallTrainStep ==
    /\ pc = "step_call"
    /\ \E p \in 0..(ParamMod - 1), b \in Batches :
          LET o == TrainStepFn(p, b)
          IN /\ batch' = b
             /\ out' = <<o.item>>
             /\ grads' = <<o.grads>>
             /\ params' = <<StepLeavesModel(p)>>
    /\ trainSteps' = 1
    /\ UNCHANGED <<pc, fsVars, runVars, seedCount, rngSeed, loaders, loopVars,
                   validSteps, updates, checkpoints, finalSaves>>

\* a step that panics in a collaborator returns nothing
StepPanics ==
    /\ pc = "step_call"
    /\ pc' = "failed"
    /\ UNCHANGED <<fsVars, runVars, seedCount, rngSeed, loaders, params, loopVars,
                   stepVars, countVars>>

CallValidStep ==
    /\ pc = "step_call"
    /\ \E p \in 0..(ParamMod - 1), b \in Batches :
          /\ batch' = b
          /\ out' = <<ValidStepFn(p, b)>>
          /\ params' = <<StepLeavesModel(p)>>
    /\ validSteps' = 1
    /\ UNCHANGED <<pc, fsVars, runVars, seedCount, rngSeed, loaders, loopVars, grads,
                   trainSteps, updates, checkpoints, finalSaves>>

NextStep == CallTrainStep \/ CallValidStep \/ StepPanics

SpecStep == InitStep /\ [][NextStep]_vars

\* ==== properties ==========================================================

\* C1: with num_epochs = N the fit loop takes exactly one checkpoint at the
\* end of each epoch 1..N, never starts an epoch N+1, returns only after the
\* N-th checkpoint, and every run reaches the loop's return or fails.
C1_EpochCount ==
    /\ [](epoch <= cfg.num_epochs)
    /\ [](checkpoints <= epoch /\ (pc = "fit" => checkpoints = epoch))
    /\ [](pc \in {"save_final", "done"} =>
             checkpoints = cfg.num_epochs /\ epoch = cfg.num_epochs)
    /\ <>(pc \in {"save_final", "failed"})

C1_Witness ==
    /\ pc = "done"
    /\ cfg.num_epochs >= 2
    /\ checkpoints = cfg.num_epochs
    /\ trainSteps > 0

\* C2: when train returns and the source sizes are multiples of the batch
\* size b, TrainStep ran N*(T/b) times, ValidStep N*(V/b) times and the final
\* model was saved once, only at the end; N=1, b=2, T=4, V=2 gives 2 training
\* steps, 1 validation step, one checkpoint and one final save.
C2_StepCounts ==
    /\ finalSaves <= 1
    /\ (finalSaves = 1 => pc = "done")
    /\ (pc = "done" /\ nTrain % cfg.batch_size = 0 /\ nValid % cfg.batch_size = 0) =>
          /\ trainSteps = cfg.num_epochs * (nTrain \div cfg.batch_size)
          /\ validSteps = cfg.num_epochs * (nValid \div cfg.batch_size)
          /\ finalSaves = 1
    /\ (pc = "done" /\ cfg.num_epochs = 1 /\ cfg.batch_size = 2 /\ nTrain = 4
          /\ nValid = 2) =>
          (trainSteps = 2 /\ validSteps = 1 /\ checkpoints = 1 /\ finalSaves = 1)

C2_Witness ==
    /\ pc = "done"
    /\ cfg.num_epochs = 1 /\ cfg.batch_size = 2 /\ cfg.seed = 7
    /\ nTrain = 4 /\ nValid = 2
    /\ trainSteps = 2 /\ validSteps = 1 /\ checkpoints = 1 /\ finalSaves = 1

\* C3: once initialised, the model parameters change only in the optimizer
\* update: the steps (and the evaluator they call), the checkpoint and the
\* final save leave them as they are.
C3_OnlyOptimizerMutates ==
    [][(params # <<>> /\ params' # params) =>
          (pc = "optim" /\ updates' = updates + 1)]_vars

C3_Witness ==
    /\ pc = "done"
    /\ updates > 0 /\ validSteps > 0 /\ checkpoints > 0 /\ finalSaves = 1
    /\ params # <<cfg.seed % ParamMod>>

\* C4: the global generator is seeded from config.seed exactly once, before
\* either loader is built, before the parameters are initialised and before
\* the first step.
C4_SeededOnceFirst ==
    /\ seedCount <= 1
    /\ (seedCount = 1 => rngSeed = <<cfg.seed>>)
    /\ (loaders # {} => seedCount = 1)
    /\ (params # <<>> => seedCount = 1)
    /\ (trainSteps + validSteps > 0 => seedCount = 1)
    /\ (pc = "done" => seedCount = 1)

C4_Witness ==
    /\ pc = "done"
    /\ seedCount = 1
    /\ loaders = {"train", "valid"}
    /\ trainSteps > 0 /\ validSteps > 0

\* C5: after each completed call of the prepare operation, the first and the
\* second in succession, the artifact directory exists and is empty.
C5_PreparedDirEmpty ==
    (prepCalls >= 1 /\ pc = After("prepare_create")) => (dirExists /\ files = {})

\* C6: train returns normally only when no removal failure other than
\* not-found and no failure to recreate the directory has occurred.
C6_NoErrorSwallowed ==
    pc = "done" => (rmRes # "Other" /\ mkRes # "Err")

\* C7: train returns normally exactly when the final model has been persisted
\* at <artifact_dir>/model; a failed final save ends the run in failure.
C7_FinalSaveFatal ==
    /\ (pc = "done" => (finalSaves = 1 /\ dirExists /\ ModelFile \in files))
    /\ (finalSaves = 1 => pc = "done")
    /\ (pc = "failed" => finalSaves = 0)

C7_Witness ==
    /\ pc = "failed"
    /\ cfg.num_epochs > 0
    /\ checkpoints = cfg.num_epochs
    /\ finalSaves = 0
    /\ ModelFile \notin files

\* C8: a step given a batch of size zero returns no ClassificationOutput.
C8_EmptyBatchFails ==
    (trainSteps + validSteps > 0 /\ batch = <<>>) => out = <<>>

\* C9: in every epoch the phases run in the order TrainPhase, ValidPhase,
\* checkpoint: validation starts after the epoch's last optimizer update, the
\* checkpoint follows the epoch's last validation step, and the next epoch's
\* training follows the checkpoint.
C9_PhaseOrder ==
    /\ (pc \in {"train_phase", "optim"} =>
          /\ checkpoints = epoch - 1
          /\ validSteps = (epoch - 1) * ValidBatches)
    /\ (pc = "valid_phase" =>
          /\ trainSteps = epoch * TrainBatches
          /\ updates = epoch * TrainBatches
          /\ grads = <<>>
          /\ checkpoints = epoch - 1)
    /\ (pc = "checkpoint" =>
          /\ updates = epoch * TrainBatches
          /\ validSteps = epoch * ValidBatches
          /\ checkpoints = epoch - 1)

C9_Witness ==
    /\ pc = "checkpoint"
    /\ epoch >= 2
    /\ TrainBatches >= 2
    /\ ValidBatches >= 1
    /\ validSteps = epoch * ValidBatches

\* C10: whatever the number of prefetching workers, at most one gradient set
\* is pending, it is the fresh result of the last TrainStep, and the optimizer
\* consumes it before the next step: every step has exactly one update.
C10_GradientsConsumedOnce ==
    /\ prefetched <= cfg.num_workers
    /\ Len(grads) <= 1
    /\ (grads # <<>> <=> pc = "optim")
    /\ (grads # <<>> => grads[1] = Backward(out[1].loss))
    /\ trainSteps = updates + Len(grads)

C10_Witness ==
    /\ pc = "optim"
    /\ cfg.num_workers >= 2
    /\ prefetched >= 1
    /\ updates >= 1
    /\ grads # <<>>

====
